---- MODULE Spec2Model ----
(***************************************************************************)
(* Slack notification scripts of Automated-Testing-Playwright.             *)
(*                                                                         *)
(* The repository holds six near-duplicate variants of one script, each    *)
(* with its own main():                                                    *)
(*   "fnHtml"   src/sendSlackNotification.js:1-165   (functions, uploads   *)
(*              the HTML report, then the screenshots it finds)            *)
(*   "cls"      src/sendSlackNotification.js:167-350 (class SlackNotifier) *)
(*   "attach"   src/unnamed/part_001      (screenshots from attachments)   *)
(*   "fallback" src/unnamed/part_002      (getTestResults with fallbacks)  *)
(*   "attachB"  src/unnamed/part_003:1-208                                 *)
(*   "clsB"     src/unnamed/part_003:210-369 (class SlackNotifier)         *)
(*                                                                         *)
(* One run of main() is a behaviour; every remote call and every           *)
(* filesystem step is one action, and a thrown error is handled in the     *)
(* action that throws (main's catch: log the fatal error, process.exit(1)).*)
(*                                                                         *)
(* Specifications:                                                         *)
(*   Spec        a run of main()                                           *)
(*   FairSpec    Spec with every enabled step of main eventually taken     *)
(*   SpecReport  the failure extraction and the summary text of a report   *)
(*   SpecShots   processScreenshots of the class variants                  *)
(*   SpecName    the file-name transform of the attachment variants        *)
(*   SpecScan    the scan of the results directory                         *)
(*   SpecInfer   the browser label uploadScreenshot reads off a path       *)
(***************************************************************************)
EXTENDS Integers, Sequences, FiniteSets, TLC

VARIABLES
    variant,    \* which of the six scripts runs
    token,      \* SLACK_BOT_TOKEN is set
    channelId,  \* SLACK_CHANNEL_ID is set
    resultsDir, \* the test-results directory exists
    pc,         \* position of main
    failed,     \* the failed count main read from the report
    shots,      \* screenshotPaths / screenshots, the files to upload
    cur,        \* the file being uploaded (0: index.html, i: shots[i])
    trace,      \* the remote calls and filesystem steps made, with results
    log,        \* the console lines written
    exitCode,   \* -1 while running, then the exit code of the process
    report,     \* the parsed report document (results)
    failedTests, \* what the failure extraction returned
    message,    \* the summary text handed to chat.postMessage
    baseName,   \* path.basename(filePath), as a sequence of characters
    fileName,   \* the sanitized name of the upload
    tree,       \* the entries of the directory a scan is given
    found,      \* the paths the scan returned
    shotPath,   \* the absolute path of a screenshot, cut into its words
    browser     \* the browser uploadScreenshot reads from the path

vars == <<variant, token, channelId, resultsDir, pc, failed, shots, cur, trace,
          log, exitCode, report, failedTests, message, baseName, fileName,
          tree, found, shotPath, browser>>

(* The values the functions of the scripts are applied to and return; a    *)
(* run of main under Spec leaves them alone.                               *)
lib == <<report, failedTests, message, baseName, fileName, tree, found,
        shotPath, browser>>

(* What no step of main changes. *)
env == <<variant, token, channelId, resultsDir, lib>>

(* Bounds of the model. *)
MaxFiles == 2
MaxFailed == 2

Variants == {"fnHtml", "cls", "attach", "fallback", "attachB", "clsB"}

(* Variants built on class SlackNotifier / on the attachments of the report. *)
ClassVariants == {"cls", "clsB"}
AttachVariants == {"attach", "attachB"}

(* The three upload steps, as they appear in trace. *)
UploadOps == {"slot", "xfer", "final"}

(* Outcomes a Web API call can have: ok result, non-ok result, rejection. *)
ApiResults == {"ok", "nonok", "throws"}
(* Outcomes of axios.post: resolves or rejects. *)
HttpResults == {"ok", "throws"}

Call(op, f, r) == [op |-> op, file |-> f, res |-> r]

(* index.html is file 0; the screenshots are shots[1..Len(shots)]. *)
HtmlFile == 0

FilesUpTo(n) == [i \in 1..n |-> i]

----------------------------------------------------------------------------
(* Control transfers shared by the actions. *)

Goto(p, c, tr, lg) ==
    /\ pc' = p
    /\ cur' = c
    /\ trace' = tr
    /\ log' = lg
    /\ exitCode' = exitCode

(* The catch block with the completion line printed on the way out, as a   *)
(* finally clause would.                                                   *)
Fatal_CompletionLogged(tr, lg) ==
    /\ pc' = "failed"
    /\ cur' = cur
    /\ trace' = tr
    /\ log' = Append(Append(lg, "fatal"), "done")
    /\ exitCode' = 1

(* main's catch block: console.error('치명적 오류'), process.exit(1). *)
Fatal(tr, lg) ==
    /\ pc' = "failed"
    /\ cur' = cur
    /\ trace' = tr
    /\ log' = Append(lg, "fatal")
    /\ exitCode' = 1

(* The check with the channel identifier forgotten. *)
EnvOk_TokenOnly(t, c) == t

(* if (!SLACK_BOT_TOKEN || !SLACK_CHANNEL_ID) throw ... *)
EnvOk(t, c) == t /\ c

(* main reading the report without validating the channel. *)
AfterEnv_SkipValidate == "report"

(* What main does after the environment check. *)
AfterEnv == "validate"

(* main looking for screenshots first in every variant. *)
AfterReport_UploadFirst(v) == "scan"

(* What main does once the report is read: part_002 looks for the          *)
(* screenshots before it sends the summary, the others send first.         *)
AfterReport(v) == IF v = "fallback" THEN "scan" ELSE "send"

(* The upload loop over the screenshots, entered with the list known. *)
StartUploads(n, tr, lg) ==
    IF n > 0 THEN Goto("begin", 1, tr, Append(lg, "batchStart"))
    ELSE Goto("finish", cur, tr, Append(lg, "noShots"))

(* if (failedTests > 0) await notifier.processScreenshots(...) *)
ScanIfFailed(f, tr, lg) ==
    IF f > 0 THEN Goto("scan", cur, tr, lg) ELSE Goto("finish", cur, tr, lg)

(* The statements of main between the acknowledged postMessage and the     *)
(* next step.                                                              *)
AfterSend(v, f, n, tr, lg) ==
    CASE v = "fnHtml" -> Goto("html", cur, tr, lg)
      [] v \in ClassVariants -> ScanIfFailed(f, tr, lg)
      [] v \in AttachVariants ->
            IF f > 0 /\ n > 0 THEN Goto("begin", 1, tr, Append(lg, "batchStart"))
            ELSE Goto("finish", cur, tr, Append(lg, "noShots"))
      [] OTHER -> StartUploads(n, tr, lg)

(* The rejection of postMessage swallowed. *)
PostThrows_Swallowed(r) == FALSE

(* A rejected postMessage propagates out of main's try block. *)
PostThrows(r) == r # "ok"

(* if (failed > 0) { findScreenshotFiles ... } after the HTML report. *)
AfterHtml(f, tr, lg) == ScanIfFailed(f, tr, lg)

(* The statements after one file's upload returned its file_id: the HTML   *)
(* report is followed by the failed-count branch, a screenshot by the next *)
(* iteration of the for loop.                                              *)
AfterUpload(v, c, f, n, tr, lg) ==
    IF c = HtmlFile THEN AfterHtml(f, tr, lg)
    ELSE LET lg2 == IF v = "fnHtml" THEN lg ELSE Append(lg, "fileDone")
         IN  IF c < n THEN Goto("begin", c + 1, tr, lg2)
             ELSE Goto("finish", c, tr, lg2)

(* An error inside one file's upload. The function variants log it in      *)
(* uploadFile/uploadScreenshot and rethrow; the class variants do not      *)
(* catch it at all. No main has a try around the call in its for loop, so  *)
(* the error reaches main's catch.                                         *)
OnUploadError(v, tr, lg) ==
    Fatal(tr, IF v \in ClassVariants THEN lg ELSE Append(lg, "uploadFail"))

(* States of the report file(s) main reads. "nostats" is a JSON document   *)
(* without a stats object.                                                 *)
ReportStates == {"ok", "missing", "malformed", "nostats"}

(* Does reading a report in state st throw out of main's try block?        *)
(* getTestResults of part_002 catches every read/parse error and falls     *)
(* back; only results.stats.total of an object without stats throws.       *)
ReportFatal(v, st) ==
    IF v = "fallback" THEN st = "nostats" ELSE st # "ok"

(* getTestResults: is the result the all-zero fallback of its catch block? *)
ReportZeroed(v, st, dir) ==
    v = "fallback" /\ (st = "malformed" \/ (st = "missing" /\ ~dir))

(* Is the result of a slot request / finalize call an error to the caller? *)
(* The function variants test .ok, the class variants do not.              *)
ApiFails(v, r) ==
    IF v \in ClassVariants THEN r = "throws" ELSE r # "ok"

(* The scan of part_002 followed by the uploads, the summary skipped. *)
AfterScan_SkipSend(v, n, tr, lg) == StartUploads(n, tr, lg)

(* What follows the directory scan. *)
AfterScan(v, n, tr, lg) ==
    IF v = "fallback" THEN Goto("send", cur, tr, lg)
    ELSE StartUploads(n, tr, lg)

(* Does an unreadable directory throw out of the scan? findFilesRecursively *)
(* of part_002 catches it, the other scans do not.                         *)
ScanThrows(v, r) == r = "unreadable" /\ v # "fallback"

----------------------------------------------------------------------------

(* No name is being sanitized and no directory scanned on its own. *)
NoNames ==
    /\ baseName = <<>>
    /\ fileName = <<>>
    /\ tree = <<>>
    /\ found = <<>>
    /\ shotPath = <<>>
    /\ browser = ""

Init ==
    /\ variant \in Variants
    /\ token \in BOOLEAN
    /\ channelId \in BOOLEAN
    /\ resultsDir \in BOOLEAN
    /\ pc = "env"
    /\ failed = 0
    /\ shots = <<>>
    /\ cur = 0
    /\ trace = <<>>
    /\ log = <<>>
    /\ exitCode = -1
    /\ report = [suites |-> <<>>]
    /\ failedTests = <<>>
    /\ message = ""
    /\ NoNames

(* main: the start line and the check of the two environment variables    *)
(* (in the class variants, the constructor of SlackNotifier).              *)
CheckEnv ==
    /\ pc = "env"
    /\ LET lg == Append(log, "start")
       IN  IF EnvOk(token, channelId) THEN Goto(AfterEnv, cur, trace, lg)
           ELSE Fatal(trace, lg)
    /\ UNCHANGED <<env, failed, shots>>

(* validateChannel: conversations.info, then the test of res.channel. *)
ValidateChannel ==
    /\ pc = "validate"
    /\ \E r \in {"ok", "nochannel", "throws"} :
         LET tr == Append(trace, Call("info", 0, r))
         IN  IF r = "ok" THEN Goto("report", cur, tr, Append(log, "channelOk"))
             ELSE Fatal(tr, IF variant \in ClassVariants THEN log
                            ELSE Append(log, "channelFail"))
    /\ UNCHANGED <<env, failed, shots>>

(* Reading and parsing the report: the failed count and, in the attachment *)
(* variants, the screenshot paths the report names.                        *)
ReadReport ==
    /\ pc = "report"
    /\ \E st \in ReportStates, f \in 0..MaxFailed, n \in 0..MaxFiles :
         LET tr == Append(trace, Call("read", 0, st))
         IN  IF ReportFatal(variant, st)
             THEN /\ f = 0 /\ n = 0
                  /\ Fatal(tr, log)
                  /\ UNCHANGED <<failed, shots>>
             ELSE /\ n > 0 => variant \in AttachVariants
                  /\ ReportZeroed(variant, st, resultsDir) => f = 0
                  /\ failed' = f
                  /\ shots' = FilesUpTo(n)
                  /\ Goto(AfterReport(variant), cur, tr,
                          IF ReportZeroed(variant, st, resultsDir)
                          THEN Append(log, "reportFail") ELSE log)
    /\ UNCHANGED env

(* findScreenshotFiles / findFailedTestScreenshots over test-results. *)
FindScreenshots ==
    /\ pc = "scan"
    /\ IF ~resultsDir
       THEN /\ shots' = <<>>
            /\ AfterScan(variant, 0, Append(trace, Call("scan", 0, "nodir")),
                         IF variant = "fallback" THEN Append(log, "scanWarn")
                         ELSE log)
       ELSE \E r \in {"ok", "unreadable"}, n \in 0..MaxFiles :
              LET tr == Append(trace, Call("scan", 0, r))
              IN  IF ScanThrows(variant, r)
                  THEN /\ n = 0
                       /\ shots' = shots
                       /\ Fatal(tr, log)
                  ELSE /\ shots' = FilesUpTo(n)
                       /\ AfterScan(variant, n, tr,
                                    IF r = "unreadable"
                                    THEN Append(log, "scanError") ELSE log)
    /\ UNCHANGED <<env, failed>>

(* chat.postMessage with the summary text. The WebClient rejects on every  *)
(* failure, and no variant looks at the result.                            *)
PostMessage ==
    /\ pc = "send"
    /\ \E r \in HttpResults :
         LET tr == Append(trace, Call("post", 0, r))
         IN  IF PostThrows(r) THEN Fatal(tr, log)
             ELSE AfterSend(variant, failed, Len(shots), tr, log)
    /\ UNCHANGED <<env, failed, shots>>

(* fs.existsSync(reportHtmlPath) of the first variant. *)
CheckHtmlReport ==
    /\ pc = "html"
    /\ \E e \in BOOLEAN :
         IF e THEN Goto("begin", HtmlFile, trace, log)
         ELSE AfterHtml(failed, trace, Append(log, "noHtml"))
    /\ UNCHANGED <<env, failed, shots>>

(* The head of uploadFile / uploadScreenshot: the file must exist, is read *)
(* and, in the function variants, announced. A path taken from the report  *)
(* may name a file that is gone; a scanned file is there.                  *)
BeginUpload ==
    /\ pc = "begin"
    /\ \E e \in (IF variant \in AttachVariants THEN BOOLEAN ELSE {TRUE}) :
         IF e THEN Goto("slot", cur, trace,
                        IF variant \in ClassVariants THEN log
                        ELSE Append(log, "uploadTry"))
         ELSE OnUploadError(variant, trace, log)
    /\ UNCHANGED <<env, failed, shots>>

(* The slot requests of all files made up front, before any transfer. *)
GetUploadURL_Overlapped ==
    /\ pc = "slot"
    /\ \E r \in ApiResults :
         LET tr == Append(trace, Call("slot", cur, r))
         IN  IF ApiFails(variant, r) THEN OnUploadError(variant, tr, log)
             ELSE IF cur # HtmlFile /\ cur < Len(shots)
                  THEN Goto("slot", cur + 1, tr, log)
                  ELSE Goto("xfer", cur, tr, log)
    /\ UNCHANGED <<env, failed, shots>>

(* Step 1: files.getUploadURLExternal. *)
GetUploadURL ==
    /\ pc = "slot"
    /\ \E r \in ApiResults :
         LET tr == Append(trace, Call("slot", cur, r))
         IN  IF ApiFails(variant, r) THEN OnUploadError(variant, tr, log)
             ELSE Goto("xfer", cur, tr, log)
    /\ UNCHANGED <<env, failed, shots>>

(* Step 2: axios.post(upload_url, fileContent). After a non-ok slot result *)
(* the class variants call it with an undefined url, which rejects.        *)
TransferBytes ==
    /\ pc = "xfer"
    /\ \E r \in HttpResults :
         /\ trace[Len(trace)].res = "nonok" => r = "throws"
         /\ LET tr == Append(trace, Call("xfer", cur, r))
            IN  IF r = "throws" THEN OnUploadError(variant, tr, log)
                ELSE Goto("final", cur, tr, log)
    /\ UNCHANGED <<env, failed, shots>>

(* Step 3: files.completeUploadExternal, the success line, and what main   *)
(* does with the returned file_id.                                         *)
CompleteUpload ==
    /\ pc = "final"
    /\ \E r \in ApiResults :
         LET tr == Append(trace, Call("final", cur, r))
         IN  IF ApiFails(variant, r) THEN OnUploadError(variant, tr, log)
             ELSE AfterUpload(variant, cur, failed, Len(shots), tr,
                              Append(log, "uploadOk"))
    /\ UNCHANGED <<env, failed, shots>>

(* The last line of main's try block; the process then ends with code 0. *)
Finish ==
    /\ pc = "finish"
    /\ pc' = "done"
    /\ log' = Append(log, "done")
    /\ exitCode' = 0
    /\ UNCHANGED <<env, failed, shots, cur, trace>>

Next ==
    \/ CheckEnv
    \/ ValidateChannel
    \/ ReadReport
    \/ FindScreenshots
    \/ PostMessage
    \/ CheckHtmlReport
    \/ BeginUpload
    \/ GetUploadURL
    \/ TransferBytes
    \/ CompleteUpload
    \/ Finish

Spec == Init /\ [][Next]_vars

(* Every step of main is an awaited call or a synchronous statement: when  *)
(* every external call returns or fails, the step that is enabled is taken.*)
FairSpec == Spec /\ WF_vars(Next)

----------------------------------------------------------------------------
(* The report document and the failure extraction.                         *)
(*                                                                         *)
(* A JSON object is a record whose DOMAIN holds the keys that are present. *)
(* A title is a string or an array of strings. Strings hold ASCII only, so *)
(* the black triangle of ' ▶ ' is written "|>".                            *)

Has(o, k) == k \in DOMAIN o

StrTitle(str) == [arr |-> FALSE, parts |-> <<str>>]
ArrTitle(p) == [arr |-> TRUE, parts |-> p]

(* The separators of the variants' join calls; Array.prototype.toString    *)
(* (an array inside a template literal) joins with a comma.                *)
TriangleSep == " |> "
AngleSep == " > "
CommaSep == ","

(* Array.prototype.join *)
RECURSIVE Join(_, _)
Join(parts, sep) ==
    IF Len(parts) = 0 THEN ""
    ELSE IF Len(parts) = 1 THEN parts[1]
    ELSE parts[1] \o sep \o Join(Tail(parts), sep)

(* The concatenation of a sequence of sequences: what a forEach that       *)
(* pushes, or a flatMap, builds.                                           *)
RECURSIVE Concat(_)
Concat(ss) == IF Len(ss) = 0 THEN <<>> ELSE ss[1] \o Concat(Tail(ss))

(* test.status === 'failed' || test.status === 'unexpected' *)
IsFailure(x) == Has(x, "status") /\ x.status \in {"failed", "unexpected"}

(* `${title}` of a title that is present. *)
ToText(title) ==
    IF title.arr THEN Join(title.parts, CommaSep) ELSE title.parts[1]

(* a || b on strings; an absent title is carried as ''. *)
OrElse(a, b) == IF a # "" THEN a ELSE b

TitleOrEmpty(o) == IF Has(o, "title") THEN ToText(o.title) ELSE ""

ProjectOr(test, dflt) ==
    IF Has(test, "projectName") THEN test.projectName ELSE dflt

(* --- class SlackNotifier of sendSlackNotification.js ("cls") --- *)

processTest(test, parentTitle) ==
    IF IsFailure(test)
    THEN << "- " \o OrElse(TitleOrEmpty(test), parentTitle) \o " "
                 \o ProjectOr(test, "Unknown Browser") >>
    ELSE <<>>

processSpec(spec, parentTitle) ==
    IF Has(spec, "tests")
    THEN Concat([i \in 1..Len(spec.tests) |->
                    processTest(spec.tests[i],
                                OrElse(TitleOrEmpty(spec), parentTitle))])
    ELSE IF IsFailure(spec)
         THEN << "- " \o OrElse(TitleOrEmpty(spec), "Unnamed Test") >>
         ELSE <<>>

RECURSIVE processSuite(_)
processSuite(currentSuite) ==
    (IF Has(currentSuite, "specs")
     THEN Concat([i \in 1..Len(currentSuite.specs) |->
                     processSpec(currentSuite.specs[i],
                                 TitleOrEmpty(currentSuite))])
     ELSE <<>>)
    \o
    (IF Has(currentSuite, "tests")
     THEN Concat([i \in 1..Len(currentSuite.tests) |->
                     processTest(currentSuite.tests[i],
                                 TitleOrEmpty(currentSuite))])
     ELSE <<>>)
    \o
    (IF Has(currentSuite, "suites")
     THEN Concat([i \in 1..Len(currentSuite.suites) |->
                     processSuite(currentSuite.suites[i])])
     ELSE <<>>)

(* The same visit with the direct tests drained before the specs. *)
collectFailedTests_TestsFirst(suite) ==
    (IF Has(suite, "tests")
     THEN Concat([i \in 1..Len(suite.tests) |->
                     processTest(suite.tests[i], TitleOrEmpty(suite))])
     ELSE <<>>)
    \o
    (IF Has(suite, "specs")
     THEN Concat([i \in 1..Len(suite.specs) |->
                     processSpec(suite.specs[i], TitleOrEmpty(suite))])
     ELSE <<>>)
    \o
    (IF Has(suite, "suites")
     THEN Concat([i \in 1..Len(suite.suites) |->
                     processSuite(suite.suites[i])])
     ELSE <<>>)

collectFailedTests(suite) == processSuite(suite)

(* --- class SlackNotifier of part_003 ("clsB") --- *)

(* Array.isArray(test.title) ? test.title.join(' ▶ ') : test.title, inside *)
(* a template literal.                                                     *)
JoinedTitle(o, sep) ==
    IF ~Has(o, "title") THEN "undefined"
    ELSE IF o.title.arr THEN Join(o.title.parts, sep)
    ELSE o.title.parts[1]

processTests(tests, projectName) ==
    Concat([i \in 1..Len(tests) |->
        IF IsFailure(tests[i])
        THEN << "- " \o JoinedTitle(tests[i], TriangleSep) \o TriangleSep
                     \o ProjectOr(tests[i], projectName) >>
        ELSE <<>>])

SpecLinesB(spec) ==
    IF Has(spec, "tests") THEN processTests(spec.tests, "Unknown Browser")
    ELSE IF IsFailure(spec)
         THEN << "- " \o (IF Has(spec, "title") THEN ToText(spec.title)
                          ELSE "undefined") >>
         ELSE <<>>

RECURSIVE collectFailedTestsB(_)
collectFailedTestsB(suite) ==
    (IF Has(suite, "specs")
     THEN Concat([i \in 1..Len(suite.specs) |-> SpecLinesB(suite.specs[i])])
     ELSE <<>>)
    \o
    (IF Has(suite, "tests") THEN processTests(suite.tests, "Unknown Browser")
     ELSE <<>>)
    \o
    (IF Has(suite, "suites")
     THEN Concat([i \in 1..Len(suite.suites) |->
                     collectFailedTestsB(suite.suites[i])])
     ELSE <<>>)

(* --- collectFailedTests inside the first main ("fnHtml") --- *)

RECURSIVE collectFailedTestsFn(_)
collectFailedTestsFn(suite) ==
    IF Has(suite, "tests")
    THEN Concat([i \in 1..Len(suite.tests) |->
            (IF IsFailure(suite.tests[i])
             THEN << "- " \o JoinedTitle(suite.tests[i], TriangleSep) >>
             ELSE <<>>)
            \o
            (IF Has(suite.tests[i], "suites")
             THEN collectFailedTestsFn(suite.tests[i]) ELSE <<>>)])
    ELSE <<>>

(* --- the loops inside main of part_001 and part_003 ("attach") --- *)

(* test.title.join(' > ') throws unless the title is an array. *)
TitleJoinThrows(test) == ~Has(test, "title") \/ ~test.title.arr

AttachLines(suite) ==
    IF Has(suite, "tests")
    THEN Concat([i \in 1..Len(suite.tests) |->
            IF IsFailure(suite.tests[i]) /\ ~TitleJoinThrows(suite.tests[i])
            THEN << "- " \o Join(suite.tests[i].title.parts, AngleSep) >>
            ELSE <<>>])
    ELSE <<>>

AttachThrows(suite) ==
    /\ Has(suite, "tests")
    /\ \E i \in 1..Len(suite.tests) :
          IsFailure(suite.tests[i]) /\ TitleJoinThrows(suite.tests[i])

(* --- the extraction a variant applies to the whole report --- *)

SuitesOf(r) == IF Has(r, "suites") THEN r.suites ELSE <<>>

(* Does the extraction throw (into main's catch)? *)
ExtractionThrows(v, r) ==
    /\ v \in AttachVariants
    /\ \E i \in 1..Len(SuitesOf(r)) : AttachThrows(SuitesOf(r)[i])

(* failedTests / failedTestsDetails. part_002 extracts nothing: it takes   *)
(* results.failedTests, which its own fallback writes and a report lacks.  *)
ExtractLines(v, r) ==
    LET ss == SuitesOf(r)
        each(i) == CASE v = "cls" -> collectFailedTests(ss[i])
                     [] v = "clsB" -> collectFailedTestsB(ss[i])
                     [] v = "fnHtml" -> collectFailedTestsFn(ss[i])
                     [] v \in AttachVariants -> AttachLines(ss[i])
                     [] OTHER -> <<>>
    IN  IF v = "fallback"
        THEN (IF Has(r, "failedTests") THEN r.failedTests ELSE <<>>)
        ELSE Concat([i \in 1..Len(ss) |-> each(i)])

----------------------------------------------------------------------------
(* The summary message. *)

(* stats.k || 0, and { k = 0 } = results.stats *)
Count(stats, k) == IF Has(stats, k) THEN stats[k] ELSE 0

(* `${stats.k}` *)
Raw(stats, k) == IF Has(stats, k) THEN ToString(stats[k]) ELSE "undefined"

(* The counter each variant calls the failed count. *)
FailedKey(v) == IF v \in {"attach", "fallback"} THEN "failed" ELSE "unexpected"

(* The counter each variant calls the passed count. *)
PassedKey(v) == IF v \in {"attach", "fallback"} THEN "passed" ELSE "expected"

(* The three counts as the message shows them: total, passed, failed. *)
ShownCounts(v, stats) ==
    CASE v = "attach" ->
            << ToString(Count(stats, "tests")),
               ToString(Count(stats, "passed")),
               ToString(Count(stats, "failed")) >>
      [] v = "fallback" ->
            << Raw(stats, "total"), Raw(stats, "passed"), Raw(stats, "failed") >>
      [] OTHER ->
            << ToString(Count(stats, "expected") + Count(stats, "unexpected")),
               ToString(Count(stats, "expected")),
               ToString(Count(stats, "unexpected")) >>

(* The failed count main branches on (part_002 never does). *)
FailedCount(v, stats) == Count(stats, FailedKey(v))

(* The lines of the message; the Korean labels are written in English. *)
Header == "*Playwright test results*"
FailureHeader == "\n*failed cases:*"
CountLines(c) ==
    << "* total: " \o c[1], "* passed: " \o c[2], "* failed: " \o c[3] >>

(* The section appended whatever the counts. *)
HasSection_Always(v, r, details) == Len(details) >= 0

(* Is the failure-case section appended? *)
HasSection(v, r, details) ==
    CASE v = "cls" ->
            FailedCount(v, r.stats) > 0 /\ Has(r, "suites") /\ Len(details) > 0
      [] v = "clsB" -> FailedCount(v, r.stats) > 0 /\ Len(details) > 0
      [] v = "fallback" -> Len(details) > 0
      [] OTHER -> FailedCount(v, r.stats) > 0

MessageLines(v, r, details) ==
    <<Header>> \o CountLines(ShownCounts(v, r.stats))
    \o (IF HasSection(v, r, details) THEN <<FailureHeader>> \o details
        ELSE <<>>)

(* message.join('\n') *)
MessageText(v, r, details) == Join(MessageLines(v, r, details), "\n")

----------------------------------------------------------------------------
(* The reports the functions are applied to. *)

MaxTests == 2
MaxSpecTests == 1
MaxDepth == 2

(* The objects of B, and the same with key k set to a value of V. *)
Opt(B, k, V) == B \cup {b @@ (k :> x) : b \in B, x \in V}

Tests ==
    { [status |-> "failed", title |-> StrTitle("t1"), projectName |-> "chromium"],
      [status |-> "unexpected", title |-> ArrTitle(<<"login", "submit">>),
       projectName |-> "firefox"],
      [status |-> "passed", title |-> StrTitle("t3"), projectName |-> "webkit"],
      [status |-> "failed"] }

TestLists(n) == UNION {[1..k -> Tests] : k \in 0..n}

SpecHeads ==
    { [title |-> StrTitle("spec"), status |-> "passed"],
      [title |-> StrTitle("spec"), status |-> "failed"],
      [status |-> "unexpected"] }

Specs == Opt(SpecHeads, "tests", TestLists(MaxSpecTests))

SpecLists == {<<>>} \cup {<<sp>> : sp \in Specs}

SuiteHeads == { [file |-> "a.spec.ts"],
                [file |-> "a.spec.ts", title |-> StrTitle("suite")] }

(* Suites without child suites, in every mixture of specs and tests. *)
LeafSuites == Opt(Opt(SuiteHeads, "specs", SpecLists), "tests", TestLists(MaxTests))

(* A few suites to nest and to pair. *)
KeySpec == [title |-> StrTitle("spec"), status |-> "passed",
            tests |-> << [status |-> "failed", title |-> StrTitle("t5"),
                          projectName |-> "webkit"] >>]
KeyTests == << [status |-> "unexpected", title |-> StrTitle("t6"),
                projectName |-> "chromium"] >>
KeySuites == Opt(Opt(SuiteHeads, "specs", {<<KeySpec>>}), "tests", {KeyTests})

RECURSIVE Nested(_)
Nested(d) ==
    IF d = 0 THEN Opt(KeySuites, "suites", {<<>>})
    ELSE Nested(d - 1)
         \cup {k @@ ("suites" :> <<c>>) : k \in KeySuites, c \in Nested(d - 1)}

Suites == LeafSuites \cup Nested(MaxDepth)

SomeStats == [duration |-> 1, expected |-> 2, unexpected |-> 1]

(* Reports for the extraction: one suite of any shape, no suites key, a    *)
(* pair of suites.                                                         *)
TreeReports ==
    {[stats |-> SomeStats]}
    \cup {[stats |-> SomeStats, suites |-> ss] :
            ss \in {<<>>} \cup {<<su>> : su \in Suites}
                   \cup {<<a, b>> : a \in KeySuites, b \in KeySuites}}

(* Reports for the summary: the counters in every vocabulary, each present *)
(* or missing, over few suites.                                            *)
StatsSet ==
    Opt(Opt(Opt(Opt(Opt(Opt({[duration |-> 1]},
        "expected", {0, 2}), "unexpected", {0, 1}),
        "passed", {2}), "failed", {0, 1}), "tests", {3}), "total", {3})

StatsReports ==
    {[stats |-> st] : st \in StatsSet}
    \cup {[stats |-> st, suites |-> ss] :
            st \in StatsSet,
            ss \in {<<>>, <<[file |-> "a.spec.ts", specs |-> <<KeySpec>>]>>,
                    <<[file |-> "a.spec.ts",
                       tests |-> << [status |-> "unexpected",
                                     title |-> ArrTitle(<<"login", "submit">>),
                                     projectName |-> "firefox"] >>]>>}}

(* The reports getTestResults of part_002 builds from the directories when *)
(* it finds no report file: failed is the number of its own lines.         *)
FallbackLines == { <<>>, <<"- chromium: test login">>,
                   <<"- chromium: test login", "- firefox: test login">> }

FallbackReports ==
    {[stats |-> [total |-> q[1], passed |-> q[1] - Len(q[2]), failed |-> Len(q[2])],
      failedTests |-> q[2]] :
        q \in {x \in (0..MaxTests) \X FallbackLines : Len(x[2]) <= x[1]}}

ReportsOf(v) ==
    TreeReports \cup StatsReports
    \cup (IF v = "fallback" THEN FallbackReports ELSE {})

(* The state of main's variables while a function is applied on its own. *)
MainIdle ==
    /\ token = TRUE
    /\ channelId = TRUE
    /\ resultsDir = TRUE
    /\ failed = 0
    /\ shots = <<>>
    /\ cur = 0
    /\ trace = <<>>
    /\ log = <<>>
    /\ exitCode = -1

InitReport ==
    /\ variant \in Variants
    /\ MainIdle
    /\ pc = "extract"
    /\ report \in ReportsOf(variant)
    /\ failedTests = <<>>
    /\ message = ""
    /\ NoNames

(* The failure extraction of the variant, applied to the report. *)
ExtractFailures ==
    /\ pc = "extract"
    /\ IF ExtractionThrows(variant, report)
       THEN /\ pc' = "threw"
            /\ failedTests' = failedTests
       ELSE /\ pc' = "compose"
            /\ failedTests' = ExtractLines(variant, report)
    /\ UNCHANGED <<variant, token, channelId, resultsDir, failed, shots, cur,
                   trace, log, exitCode, shotPath, browser, report, message, baseName, fileName,
                   tree, found>>

(* The message the variant composes from the report and the extraction. *)
ComposeMessage ==
    /\ pc = "compose"
    /\ pc' = "composed"
    /\ message' = MessageText(variant, report, failedTests)
    /\ UNCHANGED <<variant, token, channelId, resultsDir, failed, shots, cur,
                   trace, log, exitCode, shotPath, browser, report, failedTests, baseName,
                   fileName, tree, found>>

NextReport == ExtractFailures \/ ComposeMessage

SpecReport == InitReport /\ [][NextReport]_vars

----------------------------------------------------------------------------
(* The screenshots of a run of the class variants: processScreenshots      *)
(* after sendTestResults has returned a failed count above 0.              *)

(* The path of file k, cut into its words: the first lies in the directory *)
(* of a chromium test, the second under no browser's name, the others in   *)
(* the directory of a firefox test.                                        *)
PathOf(k) ==
    CASE k = 1 -> <<"test-results", "test", "login", "chromium", "test-failed-1.png">>
      [] k = 2 -> <<"test-results", "misc", "shot.png">>
      [] OTHER -> <<"test-results", "test", "login", "firefox", "test-failed-1.png">>

Range(f) == {f[i] : i \in DOMAIN f}

(* uploadScreenshot: the browser a path names, chromium before firefox     *)
(* before webkit.                                                          *)
(* The same with firefox tested before chromium. *)
InferBrowser_FirefoxFirst(p) ==
    IF "firefox" \in Range(p) THEN "firefox"
    ELSE IF "chromium" \in Range(p) THEN "chromium"
    ELSE IF "webkit" \in Range(p) THEN "webkit"
    ELSE "unknown"

InferBrowser(p) ==
    IF "chromium" \in Range(p) THEN "chromium"
    ELSE IF "firefox" \in Range(p) THEN "firefox"
    ELSE IF "webkit" \in Range(p) THEN "webkit"
    ELSE "unknown"

(* A report whose one failing attempt ran on chromium. *)
ChromiumReport ==
    [stats |-> SomeStats,
     suites |-> << [file |-> "a.spec.ts", specs |-> <<KeySpec>>, tests |-> KeyTests] >>]

(* A report whose one failing attempt ran on firefox. *)
FirefoxReport ==
    [stats |-> SomeStats,
     suites |-> << [file |-> "a.spec.ts",
                    tests |-> << [status |-> "unexpected",
                                  title |-> ArrTitle(<<"login", "submit">>),
                                  projectName |-> "firefox"] >>] >>]

(* A report whose failing attempt names no project. *)
NoProjectReport ==
    [stats |-> SomeStats,
     suites |-> << [file |-> "a.spec.ts", tests |-> << [status |-> "failed"] >>] >>]

InitShots ==
    /\ variant \in ClassVariants
    /\ token = TRUE
    /\ channelId = TRUE
    /\ resultsDir \in BOOLEAN
    /\ pc = "scan"
    /\ report \in {ChromiumReport, FirefoxReport, NoProjectReport}
    /\ failedTests = ExtractLines(variant, report)
    /\ message = MessageText(variant, report, failedTests)
    /\ NoNames
    /\ failed = FailedCount(variant, report.stats)
    /\ shots = <<>>
    /\ cur = 0
    /\ trace = << Call("info", 0, "ok"), Call("read", 0, "ok"), Call("post", 0, "ok") >>
    /\ log = <<"start", "channelOk">>
    /\ exitCode = -1

NextShots ==
    \/ FindScreenshots
    \/ BeginUpload
    \/ GetUploadURL
    \/ TransferBytes
    \/ CompleteUpload
    \/ Finish

SpecShots == InitShots /\ [][NextShots]_vars

----------------------------------------------------------------------------
(* The file name of an upload in part_001 and the first script of          *)
(* part_003. A name is a sequence of characters.                           *)

MaxNameLen == 80
MaxSuffix == 2

(* One character of each class of the two regular expressions, and one of  *)
(* none.                                                                   *)
Chars == {"a", "_", " ", "\t", ".", "-", "#"}

(* \w, \s and the set [\w\s.-] *)
IsWord(c) == c \in {"a", "_"}
IsSpace(c) == c \in {" ", "\t"}
Allowed(c) == IsWord(c) \/ IsSpace(c) \/ c \in {".", "-"}

(* The characters outside the set dropped. *)
ReplaceDisallowed_Remove(n) == SelectSeq(n, Allowed)

(* .replace(/[^\w\s.-]/gi, '_') *)
ReplaceDisallowed(n) == [i \in 1..Len(n) |-> IF Allowed(n[i]) THEN n[i] ELSE "_"]

(* .replace(/\s+/g, '_'): every run of whitespace becomes one underscore. *)
(* The name is cut in two halves; a run that spans the cut gives one       *)
(* underscore, not two.                                                    *)
RECURSIVE CollapseSpaces(_)
CollapseSpaces(n) ==
    IF Len(n) = 0 THEN <<>>
    ELSE IF Len(n) = 1 THEN (IF IsSpace(n[1]) THEN <<"_">> ELSE n)
    ELSE LET h == Len(n) \div 2
             right == CollapseSpaces(SubSeq(n, h + 1, Len(n)))
         IN  CollapseSpaces(SubSeq(n, 1, h))
             \o (IF IsSpace(n[h]) /\ IsSpace(n[h + 1]) THEN Tail(right) ELSE right)

(* .substring(0, k) *)
Substring(n, k) == SubSeq(n, 1, IF Len(n) < k THEN Len(n) ELSE k)

(* The whitespace collapsed first and a blank put for every other          *)
(* character.                                                              *)
Sanitize_BlankAfterCollapse(n) ==
    Substring([i \in 1..Len(CollapseSpaces(n)) |->
                  IF Allowed(CollapseSpaces(n)[i]) THEN CollapseSpaces(n)[i]
                  ELSE " "], MaxNameLen)

Sanitize(n) == Substring(CollapseSpaces(ReplaceDisallowed(n)), MaxNameLen)

(* The names: a run of letters up to the limit, then a few characters. *)
Pad(k) == [i \in 1..k |-> "a"]
Suffixes == UNION {[1..k -> Chars] : k \in 0..MaxSuffix}
Names ==
    {Pad(k) \o x : k \in {0, MaxNameLen - 2, MaxNameLen - 1, MaxNameLen},
                   x \in Suffixes}

InitName ==
    /\ variant \in AttachVariants
    /\ MainIdle
    /\ pc = "name"
    /\ report = [suites |-> <<>>]
    /\ failedTests = <<>>
    /\ message = ""
    /\ baseName \in Names
    /\ fileName = <<>>
    /\ tree = <<>>
    /\ found = <<>>
    /\ shotPath = <<>>
    /\ browser = ""

(* uploadScreenshot computes fileName from the base name of the path. *)
SanitizeName ==
    /\ pc = "name"
    /\ pc' = "named"
    /\ fileName' = Sanitize(baseName)
    /\ UNCHANGED <<variant, token, channelId, resultsDir, failed, shots, cur,
                   trace, log, exitCode, shotPath, browser, report, failedTests, message,
                   baseName, tree, found>>

(* The transform applied to a name it has produced. *)
SanitizeAgain ==
    /\ pc = "named"
    /\ pc' = "renamed"
    /\ fileName' = Sanitize(fileName)
    /\ UNCHANGED <<variant, token, channelId, resultsDir, failed, shots, cur,
                   trace, log, exitCode, shotPath, browser, report, failedTests, message,
                   baseName, tree, found>>

NextName == SanitizeName \/ SanitizeAgain

SpecName == InitName /\ [][NextName]_vars

----------------------------------------------------------------------------
(* The scan of the results directory. A directory is the sequence of its   *)
(* entries as readdirSync lists them; an entry has a name and, when it is  *)
(* a directory, entries of its own. A name is cut so that its extension,   *)
(* if it has one, is its last piece; a path is the sequence of the names   *)
(* from the root.                                                          *)

MaxEntries == 2
MaxDirDepth == 1

ScanVariants == {"fnHtml", "cls", "clsB", "fallback"}

File(name) == [name |-> name]
Dir(name, entries) == [name |-> name, entries |-> entries]

(* stat.isDirectory() *)
IsDirectory(e) == Has(e, "entries")

(* String.prototype.toLowerCase on a piece of a name. *)
Lower(piece) == IF piece \in {".PNG", ".Png"} THEN ".png" ELSE piece

(* file.toLowerCase().endsWith('.png') *)
EndsWithPng(name) == Lower(name[Len(name)]) = ".png"

(* item.match(/-failed\.png$/) *)
MatchesFailedPng(name) ==
    Len(name) >= 2 /\ name[Len(name)] = ".png" /\ name[Len(name) - 1] = "-failed"

(* findScreenshotFiles of the first script. *)
RECURSIVE findScreenshotFiles(_, _)
findScreenshotFiles(entries, dir) ==
    Concat([i \in 1..Len(entries) |->
        IF IsDirectory(entries[i])
        THEN findScreenshotFiles(entries[i].entries, Append(dir, entries[i].name))
        ELSE IF EndsWithPng(entries[i].name)
             THEN <<Append(dir, entries[i].name)>> ELSE <<>>])

(* fs.readdirSync(dir, { recursive: true }): every entry below dir, the    *)
(* directories among them.                                                 *)
RECURSIVE ReaddirRecursive(_, _)
ReaddirRecursive(entries, dir) ==
    Concat([i \in 1..Len(entries) |->
        <<Append(dir, entries[i].name)>>
        \o (IF IsDirectory(entries[i])
            THEN ReaddirRecursive(entries[i].entries, Append(dir, entries[i].name))
            ELSE <<>>)])

(* SlackNotifier.findScreenshotFiles: the filter on the listed paths. *)
findScreenshotFilesCls(entries) ==
    SelectSeq(ReaddirRecursive(entries, <<>>), LAMBDA p : EndsWithPng(p[Len(p)]))

(* findFilesRecursively of part_002 with the pattern /-failed\.png$/. *)
RECURSIVE findFilesRecursively(_, _)
findFilesRecursively(entries, dir) ==
    Concat([i \in 1..Len(entries) |->
        IF IsDirectory(entries[i])
        THEN findFilesRecursively(entries[i].entries, Append(dir, entries[i].name))
        ELSE IF MatchesFailedPng(entries[i].name)
             THEN <<Append(dir, entries[i].name)>> ELSE <<>>])

ScanOf(v, entries) ==
    CASE v = "fnHtml" -> findScreenshotFiles(entries, <<>>)
      [] v \in ClassVariants -> findScreenshotFilesCls(entries)
      [] OTHER -> findFilesRecursively(entries, <<>>)

(* The directories the scans are applied to. *)
FileNames ==
    { <<"shot", ".png">>, <<"shot", ".PNG">>, <<"test", "-failed", ".png">>,
      <<"test", "-failed", "-1", ".png">>, <<"trace", ".zip">> }

RECURSIVE DeepTrees(_)
DeepTrees(d) ==
    IF d = 0 THEN { <<>>, <<File(<<"shot", ".PNG">>)>> }
    ELSE DeepTrees(d - 1)
         \cup {<<Dir(<<"sub">>, t)>> : t \in DeepTrees(d - 1)}
         \cup {<<File(<<"trace", ".zip">>), Dir(<<"sub">>, t)>> : t \in DeepTrees(d - 1)}

TopEntries ==
    {File(n) : n \in FileNames}
    \cup {Dir(<<"sub">>, t) : t \in DeepTrees(MaxDirDepth)}
    \cup {Dir(<<"shots", ".png">>, t) : t \in DeepTrees(0)}

Trees == UNION {[1..k -> TopEntries] : k \in 0..MaxEntries}

InitScan ==
    /\ variant \in ScanVariants
    /\ MainIdle
    /\ pc = "scanning"
    /\ report = [suites |-> <<>>]
    /\ failedTests = <<>>
    /\ message = ""
    /\ baseName = <<>>
    /\ fileName = <<>>
    /\ tree \in Trees
    /\ found = <<>>
    /\ shotPath = <<>>
    /\ browser = ""

(* The scan of the variant applied to the directory. *)
ScanDirectory ==
    /\ pc = "scanning"
    /\ pc' = "scanned"
    /\ found' = ScanOf(variant, tree)
    /\ UNCHANGED <<variant, token, channelId, resultsDir, failed, shots, cur,
                   trace, log, exitCode, shotPath, browser, report, failedTests, message,
                   baseName, fileName, tree>>

NextScan == ScanDirectory

SpecScan == InitScan /\ [][NextScan]_vars

----------------------------------------------------------------------------
(* The browser of a screenshot in the class uploader of                    *)
(* sendSlackNotification.js. A path is cut into words at its separators    *)
(* and hyphens, so that a browser's name in it is one of the words.        *)

MaxPathLen == 3

PathWords == {"test-results", "login", "chromium", "firefox", "webkit", "shot.png"}

Paths == UNION {[1..k -> PathWords] : k \in 0..MaxPathLen}

InitInfer ==
    /\ variant = "cls"
    /\ MainIdle
    /\ pc = "path"
    /\ report = [suites |-> <<>>]
    /\ failedTests = <<>>
    /\ message = ""
    /\ baseName = <<>>
    /\ fileName = <<>>
    /\ tree = <<>>
    /\ found = <<>>
    /\ shotPath \in Paths
    /\ browser = ""

(* uploadScreenshot: let browser = 'unknown'; if ... else if ... *)
InferLabel ==
    /\ pc = "path"
    /\ pc' = "inferred"
    /\ browser' = InferBrowser(shotPath)
    /\ UNCHANGED <<variant, token, channelId, resultsDir, failed, shots, cur,
                   trace, log, exitCode, shotPath, report, failedTests, message,
                   baseName, fileName, tree, found>>

NextInfer == InferLabel

SpecInfer == InitInfer /\ [][NextInfer]_vars

----------------------------------------------------------------------------
(* Vocabulary of the properties. *)

Terminated == pc \in {"done", "failed"}

Made(ops) == {i \in DOMAIN trace : trace[i].op \in ops}

PostAcked == \E i \in Made({"post"}) : trace[i].res = "ok"

(* An upload step of file k whose result is an error to the caller. *)
UploadFailedAt(k) ==
    \E i \in Made(UploadOps) :
        /\ trace[i].file = k
        /\ IF trace[i].op = "xfer" THEN trace[i].res = "throws"
           ELSE ApiFails(variant, trace[i].res)

Attempted(k) == \E i \in Made({"slot"}) : trace[i].file = k

Completed(k) ==
    \E i \in Made({"final"}) :
        trace[i].file = k /\ ~ApiFails(variant, trace[i].res)

LogCount(line) == Cardinality({i \in DOMAIN log : log[i] = line})

----------------------------------------------------------------------------
(* C1: per-file error isolation. Once the run has ended, if the upload of  *)
(* screenshot k failed at one of its three steps, every other screenshot   *)
(* of the run was attempted and completed, and the one failure was logged  *)
(* (by the uploader or by main) with no second upload failure line.        *)
C1_PerFileIsolation ==
    \A k \in 1..Len(shots) :
        (Terminated /\ UploadFailedAt(k)) =>
            /\ \A j \in (1..Len(shots)) \ {k} : Attempted(j) /\ Completed(j)
            /\ LogCount("uploadFail") + LogCount("fatal") >= 1
            /\ LogCount("uploadFail") <= 1

(* C2: scenario E. A run that has ended and whose only failure is a slot   *)
(* request with a non-ok result is Done with exit code 0.                  *)
C2_SlotNonOkStillDone ==
    ( /\ Terminated
      /\ \E i \in Made({"slot"}) : trace[i].res = "nonok"
      /\ \A i \in DOMAIN trace :
            \/ trace[i].res = "ok"
            \/ trace[i].op = "slot" /\ trace[i].res = "nonok" )
    => (pc = "done" /\ exitCode = 0)

(* C3: no upload step (slot request, transfer, finalize) of any file is    *)
(* made, and no upload is under way, unless the summary message was sent   *)
(* and acknowledged earlier in the run.                                    *)
C3_SummaryBeforeUploads ==
    /\ \A i \in Made(UploadOps) :
          \E j \in 1..(i - 1) : trace[j].op = "post" /\ trace[j].res = "ok"
    /\ pc \in {"begin", "slot", "xfer", "final"} => PostAcked

(* C3 witness: a file was finalized in a run that sent its summary. *)
C3_Witness ==
    /\ PostAcked
    /\ \E i \in Made({"final"}) : trace[i].res = "ok"

(* C4: the report is read, a message is sent, the directory is scanned and *)
(* an upload step is made only after conversations.info returned the       *)
(* channel; and when the lookup fails or returns no channel the run is     *)
(* Failed with nothing read, sent or uploaded.                             *)
C4_ValidationFirst ==
    /\ \A i \in Made({"read", "post", "scan"} \cup UploadOps) :
          \E j \in 1..(i - 1) : trace[j].op = "info" /\ trace[j].res = "ok"
    /\ pc \notin {"env", "validate", "failed"} =>
          \E j \in Made({"info"}) : trace[j].res = "ok"
    /\ (\E i \in Made({"info"}) : trace[i].res # "ok") =>
          /\ pc = "failed" /\ exitCode = 1
          /\ Made({"read", "post", "scan"} \cup UploadOps) = {}

(* C4 witness: the lookup returned no channel and the run is Failed. *)
C4_Witness ==
    /\ pc = "failed"
    /\ \E i \in Made({"info"}) : trace[i].res = "nochannel"

(* C5: with the token or the channel identifier missing, the first step of *)
(* main ends the run Failed with exit code 1 and no call or read was made. *)
C5_MissingEnvFails ==
    ((~token \/ ~channelId) /\ pc # "env") =>
        /\ pc = "failed" /\ exitCode = 1
        /\ trace = <<>>
        /\ log = <<"start", "fatal">>

(* C5 witness: the token is set, the channel identifier is not, and the    *)
(* environment check has run.                                              *)
C5_Witness == token /\ ~channelId /\ pc = "failed"

(* C6: a report that is missing or malformed ends the run Failed with exit *)
(* code 1 and no summary message sent.                                     *)
C6_BadReportFatal ==
    (\E i \in Made({"read"}) : trace[i].res # "ok") =>
        /\ Made({"post"}) = {}
        /\ pc # "done"
        /\ Terminated => (pc = "failed" /\ exitCode = 1)

(* C7: when postMessage fails the run is Failed with exit code 1 and the   *)
(* failed call is the last step of the run: no scan and no upload step     *)
(* follows it.                                                             *)
C7_SendFailureFatal ==
    \A i \in Made({"post"}) :
        trace[i].res # "ok" =>
            /\ pc = "failed" /\ exitCode = 1
            /\ i = Len(trace)

(* C7 witness: postMessage was rejected after channel and report were fine. *)
C7_Witness ==
    /\ Len(trace) >= 3
    /\ trace[Len(trace)] = Call("post", 0, "throws")

(* C8: with a failed count of 0 and the summary sent, no directory scan    *)
(* and no upload step is ever made.                                        *)
C8_NoFailuresNoUploads ==
    (PostAcked /\ failed = 0) =>
        Made({"scan"} \cup UploadOps) = {}

(* C9: at most one postMessage call is made in a run, and a run that is    *)
(* Done made exactly one, acknowledged, before every upload step.          *)
C9_ExactlyOneSummary ==
    /\ Cardinality(Made({"post"})) <= 1
    /\ pc = "done" =>
          /\ Cardinality(Made({"post"})) = 1
          /\ \A i \in Made({"post"}) :
                /\ trace[i].res = "ok"
                /\ \A u \in Made(UploadOps) : i < u

(* C9 witness: a run is Done after uploading a file. *)
C9_Witness == pc = "done" /\ Made({"final"}) # {}

(* C10: exit contract. A run that ended with credentials present, channel  *)
(* validated, report parsed and summary sent has exit code 0; a run in     *)
(* which the credentials are missing, the report is unreadable, the        *)
(* channel validation fails or the summary send fails has exit code 1.     *)
C10_ExitContract ==
    Terminated =>
        /\ ( /\ token /\ channelId
             /\ \E i \in Made({"info"}) : trace[i].res = "ok"
             /\ \E i \in Made({"read"}) : trace[i].res = "ok"
             /\ PostAcked ) => exitCode = 0
        /\ ( \/ ~token \/ ~channelId
             \/ \E i \in Made({"info", "read", "post"}) : trace[i].res # "ok" )
           => exitCode = 1

----------------------------------------------------------------------------
(* Vocabulary of the properties of the report functions. *)

Extracted == pc \in {"compose", "composed"}

RECURSIVE SumSeq(_)
SumSeq(ns) == IF Len(ns) = 0 THEN 0 ELSE ns[1] + SumSeq(Tail(ns))

FailingIn(list) == Cardinality({i \in 1..Len(list) : IsFailure(list[i])})

(* The failing leaves of a spec: its failing attempts, or the spec itself  *)
(* when it carries a status and no list of attempts.                       *)
FailingOfSpec(spec) ==
    IF Has(spec, "tests") THEN FailingIn(spec.tests)
    ELSE IF IsFailure(spec) THEN 1 ELSE 0

RECURSIVE FailingLeaves(_)
FailingLeaves(suite) ==
    (IF Has(suite, "specs")
     THEN SumSeq([i \in 1..Len(suite.specs) |-> FailingOfSpec(suite.specs[i])])
     ELSE 0)
    + (IF Has(suite, "tests") THEN FailingIn(suite.tests) ELSE 0)
    + (IF Has(suite, "suites")
       THEN SumSeq([i \in 1..Len(suite.suites) |->
                       FailingLeaves(suite.suites[i])])
       ELSE 0)

FailingLeavesOfReport ==
    SumSeq([i \in 1..Len(SuitesOf(report)) |-> FailingLeaves(SuitesOf(report)[i])])

(* The suite nodes of a tree. *)
RECURSIVE Nodes(_)
Nodes(suite) ==
    {suite} \cup (IF Has(suite, "suites")
                  THEN UNION {Nodes(suite.suites[i]) : i \in 1..Len(suite.suites)}
                  ELSE {})

NodesOfReport ==
    UNION {Nodes(SuitesOf(report)[i]) : i \in 1..Len(SuitesOf(report))}

ListKeys == {"specs", "tests", "suites"}

(* The node with one list only, and with one element of that list only. *)
Only(node, k) ==
    [x \in (DOMAIN node \ ListKeys) \cup ({k} \cap DOMAIN node) |-> node[x]]

OnlyItem(node, k, i) ==
    [x \in (DOMAIN node \ ListKeys) \cup {k} |->
        IF x = k THEN <<node[k][i]>> ELSE node[x]]

(* What the variant extracts from one node taken as the whole tree. *)
NodeLines(node) == ExtractLines(variant, [stats |-> SomeStats, suites |-> <<node>>])

----------------------------------------------------------------------------
(* C11: extraction completeness. Whatever the suite tree, the number of    *)
(* failure lines a variant extracts from the report equals the number of   *)
(* failing leaves of the tree (part_002 has no extractor and is left out). *)
C11_ExtractionComplete ==
    (Extracted /\ variant # "fallback")
        => Len(failedTests) = FailingLeavesOfReport

(* C12: extraction order. The lines come out suite after suite in source   *)
(* order, and at every node of the tree the lines of its specs precede the *)
(* lines of its direct tests, which precede the lines of its child suites, *)
(* each list contributing in the order of its elements (part_002 has no    *)
(* extractor and is left out).                                             *)
C12_DepthFirstOrder ==
    (Extracted /\ variant # "fallback") =>
        /\ failedTests =
              Concat([i \in 1..Len(SuitesOf(report)) |->
                         NodeLines(SuitesOf(report)[i])])
        /\ \A n \in NodesOfReport :
              /\ NodeLines(n) = NodeLines(Only(n, "specs"))
                                \o NodeLines(Only(n, "tests"))
                                \o NodeLines(Only(n, "suites"))
              /\ \A k \in ListKeys \cap DOMAIN n :
                    NodeLines(Only(n, k)) =
                        Concat([i \in 1..Len(n[k]) |-> NodeLines(OnlyItem(n, k, i))])

(* A tree whose node mixes a failing spec and a failing direct test, and a *)
(* tree with a failing leaf inside a child suite, have been extracted.     *)
C12_Witness ==
    /\ Extracted
    /\ variant \in ClassVariants
    /\ Len(failedTests) >= 3
    /\ \E n \in NodesOfReport :
          /\ NodeLines(Only(n, "specs")) # <<>>
          /\ NodeLines(Only(n, "tests")) # <<>>
          /\ NodeLines(Only(n, "suites")) # <<>>

----------------------------------------------------------------------------
(* Vocabulary of the properties of the summary. *)

Composed == pc = "composed"

(* The summary text with the given lines after the three count lines. *)
TextWith(section) ==
    Join(<<Header>> \o CountLines(ShownCounts(variant, report.stats)) \o section,
         "\n")

(* The section: its heading, then every extracted line in order. *)
FullSection == <<FailureHeader>> \o failedTests

ShownFailed == FailedCount(variant, report.stats)

ScenarioA ==
    [stats |-> SomeStats,
     suites |-> << [file |-> "a.spec.ts",
                    specs |-> << [title |-> StrTitle("spec"), status |-> "passed",
                                  tests |-> << [status |-> "unexpected",
                                                title |-> ArrTitle(<<"login", "submit">>),
                                                projectName |-> "firefox"] >>] >>] >>]

(* C14: the line of Scenario A. Extracting from the report of Scenario A   *)
(* gives the one line "- login<sep>submit firefox", the separator being    *)
(* one of the two the design allows (" > ", or the triangle written "|>"). *)
C14_ScenarioALine ==
    (Extracted /\ report = ScenarioA /\ variant # "fallback")
        => failedTests \in { <<"- login > submit firefox">>,
                             <<"- login |> submit firefox">> }

(* The report in the other vocabulary: the same suites, the counters       *)
(* expected and unexpected renamed passed and failed, values kept.         *)
UsesExpected(stats) ==
    DOMAIN stats = {"duration", "expected", "unexpected"}

Renamed(r) ==
    [k \in DOMAIN r |->
        IF k = "stats"
        THEN [duration |-> r.stats.duration, passed |-> r.stats.expected,
              failed |-> r.stats.unexpected]
        ELSE r[k]]

(* C15: vocabulary tolerance. The summary composed from a report whose     *)
(* counters are expected and unexpected is the text the same variant       *)
(* composes from the report with the counters renamed passed and failed.   *)
C15_VocabularyTolerance ==
    (Composed /\ UsesExpected(report.stats))
        => message = MessageText(variant, Renamed(report),
                                 ExtractLines(variant, Renamed(report)))

----------------------------------------------------------------------------
(* Vocabulary of the correlation of screenshots with failure records. *)

(* The browser labels of the failing attempts of a tree, in extraction     *)
(* order.                                                                  *)
LabelsOfTests(tests) ==
    Concat([i \in 1..Len(tests) |->
               IF IsFailure(tests[i])
               THEN <<ProjectOr(tests[i], "Unknown Browser")>> ELSE <<>>])

RECURSIVE LabelsOfSuite(_)
LabelsOfSuite(suite) ==
    (IF Has(suite, "specs")
     THEN Concat([i \in 1..Len(suite.specs) |->
                     IF Has(suite.specs[i], "tests")
                     THEN LabelsOfTests(suite.specs[i].tests) ELSE <<>>])
     ELSE <<>>)
    \o (IF Has(suite, "tests") THEN LabelsOfTests(suite.tests) ELSE <<>>)
    \o (IF Has(suite, "suites")
        THEN Concat([i \in 1..Len(suite.suites) |-> LabelsOfSuite(suite.suites[i])])
        ELSE <<>>)

RecordLabels ==
    Concat([i \in 1..Len(SuitesOf(report)) |-> LabelsOfSuite(SuitesOf(report)[i])])

(* Does the lower-cased label of a record contain the inferred label? *)
LabelContains(label, inferred) ==
    \/ label = inferred
    \/ label = "Unknown Browser" /\ inferred = "unknown"

Matched(k) ==
    \E i \in 1..Len(RecordLabels) :
        LabelContains(RecordLabels[i], InferBrowser(PathOf(k)))

(* C16: correlation miss. No upload step is made for a screenshot whose    *)
(* inferred browser label is contained in no failure record's label.       *)
C16_UnmatchedSkipped ==
    \A i \in Made(UploadOps) : Matched(trace[i].file)

----------------------------------------------------------------------------
(* C17: sanitization idempotence. Applying the transform to a name it has  *)
(* produced leaves the name as it is.                                      *)
C17_SanitizeIdempotent ==
    [][pc = "named" => fileName' = fileName]_vars

(* A name longer than the limit, holding whitespace and a character        *)
(* outside the allowed set, has been sanitized twice.                      *)
C17_Witness ==
    /\ pc = "renamed"
    /\ Len(baseName) > MaxNameLen
    /\ Len(fileName) = MaxNameLen
    /\ \E i \in DOMAIN baseName : IsSpace(baseName[i])
    /\ \E i \in DOMAIN baseName : ~Allowed(baseName[i])

----------------------------------------------------------------------------
(* The scan found no results directory. *)
ScannedMissing == \E i \in Made({"scan"}) : trace[i].res = "nodir"

(* The scan of a missing directory returns nothing and throws nothing:     *)
(* no screenshot is uploaded, and a run that fails fails at a later call.  *)
MissingDirHarmless ==
    ScannedMissing =>
        /\ shots = <<>>
        /\ \A i \in Made(UploadOps) : trace[i].file = HtmlFile
        /\ pc = "failed" => trace[Len(trace)].op # "scan"
        /\ pc = "done" => exitCode = 0

(* C18: Scenario C. When the results directory does not exist the scan     *)
(* returns the empty set and raises nothing, so the run can still end      *)
(* Done, and a warning has been logged.                                    *)
C18_MissingDirWarned ==
    /\ MissingDirHarmless
    /\ ScannedMissing => LogCount("scanWarn") = 1

----------------------------------------------------------------------------
(* The paths of the files below a directory. *)
RECURSIVE AllFiles(_, _)
AllFiles(entries, dir) ==
    UNION {IF IsDirectory(entries[i])
           THEN AllFiles(entries[i].entries, Append(dir, entries[i].name))
           ELSE {Append(dir, entries[i].name)} : i \in 1..Len(entries)}

PngFiles == {p \in AllFiles(tree, <<>>) : EndsWithPng(p[Len(p)])}

(* C19: the scan returns every file, at any depth, whose name ends in .png *)
(* whatever the case of its letters, and nothing else.                     *)
C19_ScanFindsPngFiles ==
    pc = "scanned" => Range(found) = PngFiles

----------------------------------------------------------------------------
(* C20: the three-step upload protocol. A transfer directly follows a slot *)
(* request for the same file that returned ok; a finalize directly follows *)
(* a transfer of the same file that succeeded; after a step that did not   *)
(* return ok no later step is made for that file; and a file id is         *)
(* returned (the success line written) only for a finalize that returned   *)
(* ok.                                                                     *)
C20_ThreeStepProtocol ==
    /\ \A i \in Made({"xfer"}) :
          i > 1 /\ trace[i - 1] = Call("slot", trace[i].file, "ok")
    /\ \A i \in Made({"final"}) :
          i > 1 /\ trace[i - 1] = Call("xfer", trace[i].file, "ok")
    /\ \A i \in Made(UploadOps) :
          trace[i].res # "ok" =>
              \A j \in Made(UploadOps) : j > i => trace[j].file # trace[i].file
    /\ LogCount("uploadOk")
          = Cardinality({i \in Made({"final"}) : trace[i].res = "ok"})

----------------------------------------------------------------------------
(* The records a spec should yield: one for its own failing status when it *)
(* has no attempts (no list, or an empty one), else one per failing        *)
(* attempt.                                                                *)
RecordsOfSpec(spec) ==
    IF ~Has(spec, "tests") \/ spec.tests = <<>>
    THEN (IF IsFailure(spec) THEN 1 ELSE 0)
    ELSE FailingIn(spec.tests)

(* C21: spec-level failures. In the class extractors every spec of every   *)
(* suite node yields one line for its own failing status when it has no    *)
(* attempts (the list absent or empty), and otherwise one line per failing *)
(* attempt and none for its own status.                                    *)
C21_SpecLevelFailure ==
    (Extracted /\ variant \in ClassVariants) =>
        \A n \in NodesOfReport :
            Has(n, "specs") =>
                \A i \in 1..Len(n.specs) :
                    Len(NodeLines(OnlyItem(n, "specs", i))) = RecordsOfSpec(n.specs[i])

----------------------------------------------------------------------------
(* Vocabulary of the lines of the class extractors. *)

(* The text a class variant gives a title that is present. *)
TitleTextOf(v, title) ==
    IF title.arr
    THEN Join(title.parts, IF v = "clsB" THEN TriangleSep ELSE CommaSep)
    ELSE title.parts[1]

(* The title of the first of the objects that has one, else the literal. *)
RECURSIVE FirstTitle(_, _)
FirstTitle(v, objs) ==
    IF Len(objs) = 0 THEN "Unnamed Test"
    ELSE IF Has(objs[1], "title") THEN TitleTextOf(v, objs[1].title)
    ELSE FirstTitle(v, Tail(objs))

(* The line of a class variant for a title and a browser label. *)
LineWith(v, t, b) ==
    IF v = "clsB" THEN "- " \o t \o TriangleSep \o b ELSE "- " \o t \o " " \o b

(* The spec with attempt j only. *)
SpecWithTest(spec, j) ==
    [k \in DOMAIN spec |-> IF k = "tests" THEN <<spec.tests[j]>> ELSE spec[k]]

(* The node with one spec only, that spec being sp. *)
NodeWithSpec(n, sp) ==
    [x \in (DOMAIN n \ ListKeys) \cup {"specs"} |->
        IF x = "specs" THEN <<sp>> ELSE n[x]]

(* C22: title fallback. In the class extractors the line of a failing      *)
(* attempt carries the attempt's own title when it has one, else the title *)
(* of its spec, else the title of its suite, else "Unnamed Test".          *)
C22_TitleFallback ==
    (Extracted /\ variant \in ClassVariants) =>
        \A n \in NodesOfReport :
            /\ Has(n, "specs") =>
                  \A i \in 1..Len(n.specs) :
                      Has(n.specs[i], "tests") =>
                          \A j \in 1..Len(n.specs[i].tests) :
                              IsFailure(n.specs[i].tests[j]) =>
                                  NodeLines(NodeWithSpec(n, SpecWithTest(n.specs[i], j)))
                                  = << LineWith(variant,
                                           FirstTitle(variant, <<n.specs[i].tests[j],
                                                                 n.specs[i], n>>),
                                           ProjectOr(n.specs[i].tests[j],
                                                     "Unknown Browser")) >>
            /\ Has(n, "tests") =>
                  \A j \in 1..Len(n.tests) :
                      IsFailure(n.tests[j]) =>
                          NodeLines(OnlyItem(n, "tests", j))
                          = << LineWith(variant,
                                        FirstTitle(variant, <<n.tests[j], n>>),
                                        ProjectOr(n.tests[j], "Unknown Browser")) >>

----------------------------------------------------------------------------
(* The title a class variant shows for a failing attempt under a parent    *)
(* title, and for a spec that failed by its own status.                    *)
ShownTitle(v, test, parentTitle) ==
    IF v = "clsB" THEN JoinedTitle(test, TriangleSep)
    ELSE OrElse(TitleOrEmpty(test), parentTitle)

ShownSpecTitle(v, spec) ==
    IF v = "clsB" THEN (IF Has(spec, "title") THEN ToText(spec.title) ELSE "undefined")
    ELSE OrElse(TitleOrEmpty(spec), "Unnamed Test")

(* C23: browser label. In the class extractors the line of a failing       *)
(* direct attempt ends in the attempt's project label, or in "Unknown      *)
(* Browser" when it has none, and the line of a spec that failed by its    *)
(* own status ends in "Unknown Browser".                                   *)
C23_BrowserLabel ==
    (Extracted /\ variant \in ClassVariants) =>
        \A n \in NodesOfReport :
            /\ Has(n, "tests") =>
                  \A j \in 1..Len(n.tests) :
                      IsFailure(n.tests[j]) =>
                          NodeLines(OnlyItem(n, "tests", j))
                          = << LineWith(variant,
                                        ShownTitle(variant, n.tests[j], TitleOrEmpty(n)),
                                        ProjectOr(n.tests[j], "Unknown Browser")) >>
            /\ Has(n, "specs") =>
                  \A i \in 1..Len(n.specs) :
                      (~Has(n.specs[i], "tests") /\ IsFailure(n.specs[i])) =>
                          NodeLines(OnlyItem(n, "specs", i))
                          = << LineWith(variant, ShownSpecTitle(variant, n.specs[i]),
                                        "Unknown Browser") >>

----------------------------------------------------------------------------
(* The three count lines for a passed and a failed count, the total their  *)
(* sum.                                                                    *)
SummedCounts(p, f) == CountLines(<<ToString(p + f), ToString(p), ToString(f)>>)

(* C24: the counts of the summary. The passed and failed counts shown are  *)
(* the report's own counters, a missing one read as 0, whatever the number *)
(* of extracted lines, and the total shown is their sum.                   *)
C24_CountsAsReported ==
    Composed =>
        LET lines == <<Header>>
                     \o SummedCounts(Count(report.stats, PassedKey(variant)),
                                     Count(report.stats, FailedKey(variant)))
        IN  message \in { Join(lines, "\n"), Join(lines \o FullSection, "\n") }

----------------------------------------------------------------------------
(* Vocabulary of the sanitized name. *)

(* Character i of the input survives unless it continues a run of          *)
(* whitespace.                                                             *)
Kept(n) == {i \in DOMAIN n : ~(IsSpace(n[i]) /\ i > 1 /\ IsSpace(n[i - 1]))}

(* Where character i of the input lands in the output. *)
PosOf(n, i) == Cardinality({j \in Kept(n) : j <= i})

(* What an input character becomes. *)
OutChar(c) == IF Allowed(c) /\ ~IsSpace(c) THEN c ELSE "_"

(* C25 as stated: the sanitized name is the input with the characters      *)
(* outside word/whitespace/dot/hyphen removed, every run of whitespace     *)
(* turned into one underscore, cut to 80 characters.                       *)
C25_DisallowedRemoved ==
    pc = "named" =>
        fileName = Substring(CollapseSpaces(SelectSeq(baseName, Allowed)), MaxNameLen)

(* C25 amended: the sanitized name has at most 80 characters, all of them  *)
(* word characters, dots or hyphens; it is the input, cut to 80, with each *)
(* character outside word/whitespace/dot/hyphen replaced by an underscore  *)
(* and each run of whitespace by a single underscore.                      *)
C25_DisallowedReplaced ==
    pc = "named" =>
        /\ Len(fileName) <= MaxNameLen
        /\ \A i \in DOMAIN fileName : IsWord(fileName[i]) \/ fileName[i] \in {".", "-"}
        /\ Len(fileName) = IF Cardinality(Kept(baseName)) < MaxNameLen
                           THEN Cardinality(Kept(baseName)) ELSE MaxNameLen
        /\ \A i \in Kept(baseName) :
              PosOf(baseName, i) <= MaxNameLen
                  => fileName[PosOf(baseName, i)] = OutChar(baseName[i])

(* A name past the limit with a disallowed character inside the first 80   *)
(* and a run of whitespace has been sanitized.                             *)
C25_Witness ==
    /\ pc = "named"
    /\ Len(baseName) > MaxNameLen
    /\ \E i \in 1..MaxNameLen : ~Allowed(baseName[i])
    /\ \E i \in DOMAIN baseName : IsSpace(baseName[i])
    /\ fileName # baseName

----------------------------------------------------------------------------
(* The browser names in the order the inference prefers them. *)
BrowserPriority == <<"chromium", "firefox", "webkit">>

(* C26: browser inference. The label is "unknown" exactly when the path    *)
(* holds no browser name; otherwise it is a browser name the path holds,   *)
(* and the path holds no name of higher priority (chromium, then firefox,  *)
(* then webkit).                                                           *)
C26_BrowserInference ==
    pc = "inferred" =>
        LET here == {k \in DOMAIN BrowserPriority :
                        BrowserPriority[k] \in Range(shotPath)}
        IN  /\ browser = "unknown" <=> here = {}
            /\ browser # "unknown" =>
                  \E k \in here : /\ browser = BrowserPriority[k]
                                  /\ \A j \in here : k <= j

(* A path that names firefox before chromium has been given the label      *)
(* chromium, the first in priority.                                        *)
C26_Witness ==
    /\ pc = "inferred"
    /\ Len(shotPath) >= 2
    /\ shotPath[1] = "firefox"
    /\ shotPath[2] = "chromium"
    /\ browser = "chromium"

----------------------------------------------------------------------------
(* A scan met a subdirectory it could not read. *)
ScannedUnreadable == \E i \in Made({"scan"}) : trace[i].res = "unreadable"

(* C27: artifact scan error. When a subdirectory of the results directory  *)
(* cannot be read, the error is logged and the scan goes on: the run is    *)
(* not failed by the scan.                                                 *)
C27_ScanErrorTolerated ==
    ScannedUnreadable =>
        /\ LogCount("scanError") >= 1
        /\ pc = "failed" => trace[Len(trace)].op # "scan"

----------------------------------------------------------------------------
(* The upload of file k is over: finalized, or failed at one of its steps. *)
UploadOver(k) == Completed(k) \/ UploadFailedAt(k)

(* The upload of file k has begun and is not over. *)
InProgress(k) == Attempted(k) /\ ~UploadOver(k)

(* C28: uploads are strictly sequential. At most one file's upload is in   *)
(* progress; the screenshots are attempted in the order of the scan, none  *)
(* skipped and none twice; and the slot request of a file is made only     *)
(* when the upload steps made before it ended with a finalized or failed   *)
(* upload.                                                                 *)
C28_SequentialUploads ==
    /\ \A k, l \in 0..Len(shots) : InProgress(k) /\ InProgress(l) => k = l
    /\ \A k \in 0..Len(shots) :
           InProgress(k) => k = cur /\ pc \in {"xfer", "final"}
    /\ \A i \in Made({"slot"}) :
           LET k == trace[i].file
               before == {j \in Made(UploadOps) : j < i}
           IN  /\ \A j \in before : trace[j].file < k
               /\ k > 1 => \E j \in before :
                               trace[j].op = "slot" /\ trace[j].file = k - 1
               /\ \A j \in before :
                      (\A h \in before : h <= j) =>
                          \/ trace[j].op = "final"
                          \/ /\ trace[j].op = "xfer" /\ trace[j].res = "throws"
                          \/ /\ trace[j].op = "slot"
                             /\ ApiFails(variant, trace[j].res)

C28_Witness ==
    /\ pc = "done"
    /\ Len(shots) = 2
    /\ Completed(1)
    /\ Completed(2)

----------------------------------------------------------------------------
(* The terminal outcome Done: completion logged, exit code 0. *)
EndedDone ==
    /\ exitCode = 0
    /\ LogCount("done") = 1
    /\ LogCount("fatal") = 0

(* The terminal outcome Failed: fatal error logged, exit code 1, and the   *)
(* completion message not logged.                                          *)
EndedFailed ==
    /\ exitCode = 1
    /\ LogCount("fatal") = 1
    /\ LogCount("done") = 0

(* C29: provided every external call returns or fails, every run of main   *)
(* terminates, in exactly one of the outcomes Done and Failed; a run that  *)
(* ends Failed never logs the completion message; and once the outcome is  *)
(* reached no remote call is made (nothing changes any more).              *)
C29_Termination ==
    /\ <>Terminated
    /\ [](pc = "done" => EndedDone)
    /\ [](pc = "failed" => EndedFailed)
    /\ [](~Terminated => exitCode = -1 /\ LogCount("done") = 0
                                       /\ LogCount("fatal") = 0)
    /\ [][Terminated => UNCHANGED vars]_vars

C29_Witness ==
    /\ pc = "failed"
    /\ PostAcked
    /\ EndedFailed
    /\ \E i \in Made(UploadOps) : TRUE

============================================================================
